---- MODULE Spec2Model ----
(***************************************************************************)
(* Bug Farm: the scenario page (BugFarmPage.tsx), its fault-injection      *)
(* primitives (scenarioRunner.ts) and the scenario catalog (scenarios.ts). *)
(*                                                                         *)
(* One state of the model is one committed render of the page plus the     *)
(* browser's table of pending timers.  One action is one browser task: a   *)
(* user event with the handler it runs up to its first await, or one timer *)
(* callback with the handler continuation it resumes; the state updates a  *)
(* task queues are batched into one render, and the effects of that render *)
(* (toast auto hide, auth_04 redirect loop) run as part of the task.       *)
(* The upload client (src/unnamed/part_000) is a second page with its own  *)
(* state (app, inflight) and its own specification, SpecApp.               *)
(***************************************************************************)
EXTENDS Integers, Sequences, FiniteSets, TLC

VARIABLES selected, hasError, st, timers, lastAct, used, app, inflight

vars == <<selected, hasError, st, timers, lastAct, used, app, inflight>>

----------------------------------------------------------------------------
(* Bounds of the model *)

\* steps of the user in one run: selections of a scenario, clicks and input
\* changes in the scenario view, pauses while timers are pending (going back
\* to the catalog is always possible and is not counted)
MaxSteps == 4
\* handler suspensions and free timers pending at the same time
MaxPending == 2
\* entries of routeHistory
MaxHist == 4

\* length of a pause of the user, in ms
UserPauses == {100}

\* values typed into the text input
Texts == {<< >>, <<" ">>, <<"a">>, <<" ", "a">>}

----------------------------------------------------------------------------
(* Program constants *)

LogLimit == 10
ToastMs == 1500
FlashToastMs == 300
RedirectMs == 250
TokenExpiryMs == 300
SecondToastMs == 100
NeverMs == 999999
HeavyRows == 2000
HeavierRows == 2500
PerfBaseMs == 1200
PerfCycle == 3

Routes == {"home", "details", "not_found", "login", "restricted"}

----------------------------------------------------------------------------
(* scenarios.ts *)

s(id, category, complexity) ==
  [id |-> id, category |-> category, complexity |-> complexity]

SCENARIOS ==
  << s("crash_01", "crash", "C0"), s("crash_02", "crash", "C1"),
     s("crash_03", "crash", "C2"), s("crash_04", "crash", "C3"),
     s("crash_05", "crash", "C1"),
     s("no_response_01", "no_response", "C0"), s("no_response_02", "no_response", "C1"),
     s("no_response_03", "no_response", "C2"), s("no_response_04", "no_response", "C3"),
     s("no_response_05", "no_response", "C1"),
     s("ui_issue_01", "ui_issue", "C0"), s("ui_issue_02", "ui_issue", "C1"),
     s("ui_issue_03", "ui_issue", "C2"), s("ui_issue_04", "ui_issue", "C3"),
     s("ui_issue_05", "ui_issue", "C1"),
     s("data_wrong_01", "data_wrong", "C0"), s("data_wrong_02", "data_wrong", "C1"),
     s("data_wrong_03", "data_wrong", "C2"), s("data_wrong_04", "data_wrong", "C3"),
     s("data_wrong_05", "data_wrong", "C1"),
     s("flow_nav_01", "flow_nav", "C0"), s("flow_nav_02", "flow_nav", "C1"),
     s("flow_nav_03", "flow_nav", "C2"), s("flow_nav_04", "flow_nav", "C3"),
     s("flow_nav_05", "flow_nav", "C1"),
     s("auth_01", "auth", "C0"), s("auth_02", "auth", "C1"),
     s("auth_03", "auth", "C2"), s("auth_04", "auth", "C3"),
     s("auth_05", "auth", "C1"),
     s("error_message_01", "error_message", "C0"), s("error_message_02", "error_message", "C1"),
     s("error_message_03", "error_message", "C2"), s("error_message_04", "error_message", "C3"),
     s("error_message_05", "error_message", "C1"),
     s("perf_01", "perf", "C0"), s("perf_02", "perf", "C1"),
     s("perf_03", "perf", "C2"), s("perf_04", "perf", "C3"),
     s("perf_05", "perf", "C1") >>

\* the keys of SCENARIOS_BY_CATEGORY, in the order of its initial object
Categories ==
  <<"crash", "no_response", "ui_issue", "data_wrong", "flow_nav", "auth",
    "error_message", "perf">>

\* mutant of SCENARIOS_BY_CATEGORY: the reducer overwrites the list of a category
SCENARIOS_BY_CATEGORY_Overwritten(cat) ==
  LET own == SelectSeq(SCENARIOS, LAMBDA sc : sc.category = cat)
  IN  IF own = << >> THEN own ELSE <<own[Len(own)]>>

\* SCENARIOS.reduce: every scenario is pushed to the list of its category
SCENARIOS_BY_CATEGORY(cat) == SelectSeq(SCENARIOS, LAMBDA sc : sc.category = cat)

Scenarios == {SCENARIOS[i] : i \in 1..Len(SCENARIOS)}

\* selected = null
NoScenario == [id |-> "none", category |-> "none", complexity |-> "none"]

----------------------------------------------------------------------------
(* scenarioRunner.ts *)

\* mutant of fakeRequest: the test is status > 400
fakeRequestOffByOne(status) ==
  IF status > 400 THEN [ok |-> FALSE, status |-> status]
  ELSE [ok |-> TRUE, status |-> status]

\* fakeRequest after its sleep: throws HttpError(status) or returns {status}
fakeRequest(status) ==
  IF status >= 400 THEN [ok |-> FALSE, status |-> status]
  ELSE [ok |-> TRUE, status |-> status]

----------------------------------------------------------------------------
(* ScenarioView: state and helpers *)

NoToast == [type |-> "none", text |-> "", arg |-> 0]
Toast(type, text) == [type |-> type, text |-> text, arg |-> 0]
NoToken == "null"

Item(n) == <<"Item", n>>
Rows(n) == [i \in 1..n |-> <<"Row", i>>]

\* the useState initial values
InitialSession ==
  [ log |-> << >>, loading |-> FALSE, toast |-> NoToast,
    text |-> << >>, checkbox |-> FALSE,
    count |-> 0, items |-> << >>, tab |-> "A",
    dark |-> FALSE, layoutBroken |-> FALSE, longText |-> FALSE, overlayOn |-> FALSE,
    route |-> "home", history |-> <<"home">>,
    token |-> NoToken ]

\* no ScenarioView is mounted
NoSession == [mounted |-> FALSE]

\* String.prototype.trim on the typed characters
RECURSIVE TrimLeft(_)
TrimLeft(t) ==
  IF t = << >> THEN t
  ELSE IF Head(t) = " " THEN TrimLeft(Tail(t)) ELSE t

RECURSIVE TrimRight(_)
TrimRight(t) ==
  IF t = << >> THEN t
  ELSE IF t[Len(t)] = " " THEN TrimRight(SubSeq(t, 1, Len(t) - 1)) ELSE t

\* mutant of trim: the test is !text
trimMissing(t) == t

trim(t) == TrimRight(TrimLeft(t))

\* new Date().toLocaleTimeString(): the time of the page, counted in the
\* steps the user has taken so far
Now == used

\* mutant of addLog: the entry goes to the end of the list
addLogAtEnd(x, msg) ==
  LET l == x.log \o <<<<Now>> \o msg>>
  IN  [x EXCEPT !.log = SubSeq(l, 1, IF Len(l) < LogLimit THEN Len(l) ELSE LogLimit)]

\* every entry starts with the time it was written at
addLog(x, msg) ==
  LET l == <<<<Now>> \o msg>> \o x.log
  IN  [x EXCEPT !.log = SubSeq(l, 1, IF Len(l) < LogLimit THEN Len(l) ELSE LogLimit)]

\* mutant of go: setRoute is left out
goWithoutRoute(id, x, to) ==
  [x EXCEPT !.history = IF id = "flow_nav_05" /\ to = "details"
                          THEN <<"details">>
                          ELSE Append(@, to)]

\* mutant of go: the flow_nav_05 replacement is left out
goAlwaysAppends(id, x, to) ==
  [x EXCEPT !.history = Append(@, to), !.route = to]

go(id, x, to) ==
  [x EXCEPT !.history = IF id = "flow_nav_05" /\ to = "details"
                          THEN <<"details">>
                          ELSE Append(@, to),
            !.route = to]

\* mutant of back: next is read at length - 1, the entry that is removed
backOffByOne(x) ==
  IF Len(x.history) <= 1 THEN x
  ELSE [x EXCEPT !.history = SubSeq(@, 1, Len(@) - 1),
                 !.route = x.history[Len(x.history)]]

back(x) ==
  IF Len(x.history) <= 1 THEN x
  ELSE [x EXCEPT !.history = SubSeq(@, 1, Len(@) - 1),
                 !.route = x.history[Len(x.history) - 1]]

----------------------------------------------------------------------------
(* Pending timers of the browser (window.setTimeout), in registration      *)
(* order.  ms is the delay asked for, rem what is left of it; id is the    *)
(* scenario of the ScenarioView whose code registered the timer and live   *)
(* tells whether that ScenarioView is still mounted.                       *)

Timer(kind, id, ms, status, to) ==
  [kind |-> kind, id |-> id, ms |-> ms, rem |-> ms, live |-> TRUE,
   status |-> status, to |-> to]

\* timers that no effect cleanup owns: sleep / fakeRequest and bare setTimeout
Free(t) == t.kind \in {"sleep", "request", "expiry", "toast2"}

CountOf(tm, P(_)) == Cardinality({i \in 1..Len(tm) : P(tm[i])})

----------------------------------------------------------------------------
(* What one run of handler code does: the state it renders next, whether   *)
(* it called setToast with a new object, whether it threw, and the timers  *)
(* it registered.                                                          *)

Done(x) == [st |-> x, shown |-> FALSE, fault |-> FALSE, spawn |-> << >>]
Show(x, type, text) ==
  [st |-> [x EXCEPT !.toast = Toast(type, text)], shown |-> TRUE, fault |-> FALSE,
   spawn |-> << >>]
Throw(x) == [st |-> x, shown |-> FALSE, fault |-> TRUE, spawn |-> << >>]
Await(x, kind, id, ms, status) ==
  [st |-> x, shown |-> FALSE, fault |-> FALSE,
   spawn |-> <<Timer(kind, id, ms, status, "")>>]

Loading(x, b) == [x EXCEPT !.loading = b]

\* handlePrimaryAction, lines 245-264
crashAction(sc, x) ==
  IF sc.id \in {"crash_01", "crash_04", "crash_05"} THEN Throw(x)
  ELSE IF sc.id = "crash_02" THEN
    IF trim(x.text) = << >> THEN Show(x, "error", "Please type something first")
    ELSE Throw(x)
  ELSE IF sc.id = "crash_03" THEN
    IF x.route # "details" THEN Show(x, "error", "Go to Details first")
    ELSE Throw(x)
  ELSE Done(x)

\* mutant of noResponseAction: no_response_03 does not test the checkbox
noResponseActionNoPrerequisite(sc, x) ==
  IF sc.id = "no_response_01" THEN Done(x)
  ELSE IF sc.id = "no_response_02" THEN Show(x, "success", "Submitted")
  ELSE IF sc.id = "no_response_03" THEN
    Show([x EXCEPT !.count = @ + 1], "success", "Submitted after prerequisite")
  ELSE Done(x)

\* mutant of noResponseAction: no_response_05 reports a success
noResponseActionFakeSuccess(sc, x) ==
  IF sc.id = "no_response_01" THEN Done(x)
  ELSE IF sc.id \in {"no_response_02", "no_response_05"} THEN Show(x, "success", "Submitted")
  ELSE IF sc.id = "no_response_03" THEN
    IF ~x.checkbox THEN Done(x)
    ELSE Show([x EXCEPT !.count = @ + 1], "success", "Submitted after prerequisite")
  ELSE Done(x)

\* lines 266-281
noResponseAction(sc, x) ==
  IF sc.id = "no_response_01" THEN Done(x)
  ELSE IF sc.id = "no_response_02" THEN Show(x, "success", "Submitted")
  ELSE IF sc.id = "no_response_03" THEN
    IF ~x.checkbox THEN Done(x)
    ELSE Show([x EXCEPT !.count = @ + 1], "success", "Submitted after prerequisite")
  ELSE Done(x)

\* mutant of uiIssueAction: ui_issue_01 toggles the layout flag
uiIssueActionTogglesLayout(sc, x) ==
  Done([x EXCEPT !.layoutBroken = IF sc.id = "ui_issue_01" THEN ~@ ELSE @,
                 !.dark = IF sc.id = "ui_issue_02" THEN ~@ ELSE @,
                 !.longText = IF sc.id = "ui_issue_05" THEN ~@ ELSE @])

\* lines 283-289
uiIssueAction(sc, x) ==
  Done([x EXCEPT !.layoutBroken = IF sc.id = "ui_issue_01" THEN TRUE ELSE @,
                 !.dark = IF sc.id = "ui_issue_02" THEN ~@ ELSE @,
                 !.longText = IF sc.id = "ui_issue_05" THEN ~@ ELSE @])

\* mutant of dataWrongAction: data_wrong_01 and data_wrong_02 update both
dataWrongActionConsistent(sc, x) ==
  IF sc.id \in {"data_wrong_01", "data_wrong_02"} THEN
    Done([x EXCEPT !.items = Append(@, Item(Len(@) + 1)), !.count = @ + 1])
  ELSE IF sc.id = "data_wrong_03" THEN
    Done([x EXCEPT !.items = Append(@, Item(Len(@) + 1))])
  ELSE IF sc.id = "data_wrong_04" THEN
    Done([x EXCEPT !.items = Append(@, Item(Len(@) + 1)), !.count = @ + 2])
  ELSE IF sc.id = "data_wrong_05" THEN
    Await(Loading(x, TRUE), "request", sc.id, 600, 200)
  ELSE Done(x)

\* mutant of dataWrongAction: data_wrong_04 counts one per item
dataWrongActionInStep(sc, x) ==
  IF sc.id = "data_wrong_01" THEN Done([x EXCEPT !.count = @ + 1])
  ELSE IF sc.id \in {"data_wrong_02", "data_wrong_03"} THEN
    Done([x EXCEPT !.items = Append(@, Item(Len(@) + 1))])
  ELSE IF sc.id = "data_wrong_04" THEN
    Done([x EXCEPT !.items = Append(@, Item(Len(@) + 1)), !.count = @ + 1])
  ELSE IF sc.id = "data_wrong_05" THEN
    Await(Loading(x, TRUE), "request", sc.id, 600, 200)
  ELSE Done(x)

\* lines 291-320
dataWrongAction(sc, x) ==
  IF sc.id = "data_wrong_01" THEN Done([x EXCEPT !.count = @ + 1])
  ELSE IF sc.id \in {"data_wrong_02", "data_wrong_03"} THEN
    Done([x EXCEPT !.items = Append(@, Item(Len(@) + 1))])
  ELSE IF sc.id = "data_wrong_04" THEN
    Done([x EXCEPT !.items = Append(@, Item(Len(@) + 1)), !.count = @ + 2])
  ELSE IF sc.id = "data_wrong_05" THEN
    Await(Loading(x, TRUE), "request", sc.id, 600, 200)
  ELSE Done(x)

\* mutant of flowNavAction: flow_nav_04 sleeps without the loading flag
flowNavActionNoSpinner(sc, x) ==
  IF sc.id = "flow_nav_01" THEN Show(x, "success", "Next clicked")
  ELSE IF sc.id = "flow_nav_02" THEN Done(go(sc.id, x, "not_found"))
  ELSE IF sc.id = "flow_nav_03" THEN Show(x, "success", "Try Entry A or B")
  ELSE IF sc.id = "flow_nav_04" THEN Await(x, "sleep", sc.id, NeverMs, 0)
  ELSE IF sc.id = "flow_nav_05" THEN Done(go(sc.id, x, "details"))
  ELSE Done(x)

\* lines 322-345
flowNavAction(sc, x) ==
  IF sc.id = "flow_nav_01" THEN Show(x, "success", "Next clicked")
  ELSE IF sc.id = "flow_nav_02" THEN Done(go(sc.id, x, "not_found"))
  ELSE IF sc.id = "flow_nav_03" THEN Show(x, "success", "Try Entry A or B")
  ELSE IF sc.id = "flow_nav_04" THEN Await(Loading(x, TRUE), "sleep", sc.id, NeverMs, 0)
  ELSE IF sc.id = "flow_nav_05" THEN Done(go(sc.id, x, "details"))
  ELSE Done(x)

\* lines 347-418; tokenRef.current is the token of the render the click sees
authAction(sc, x) ==
  IF sc.id = "auth_01" THEN Done(go(sc.id, x, "restricted"))
  ELSE IF sc.id = "auth_02" THEN
    Await(Loading(x, TRUE), "request", sc.id, 500,
          IF x.token = NoToken THEN 401 ELSE 200)
  ELSE IF sc.id = "auth_03" THEN
    IF x.token = NoToken THEN
      [st |-> [x EXCEPT !.token = "token_just_logged_in",
                        !.toast = Toast("success", "Logged in")],
       shown |-> TRUE, fault |-> FALSE,
       spawn |-> <<Timer("expiry", sc.id, TokenExpiryMs, 0, "")>>]
    ELSE
      Await(Loading(x, TRUE), "request", sc.id, 400,
            IF x.token = NoToken THEN 401 ELSE 200)
  ELSE IF sc.id = "auth_04" THEN Done(go(sc.id, x, "restricted"))
  ELSE IF sc.id = "auth_05" THEN Await(Loading(x, TRUE), "request", sc.id, 450, 403)
  ELSE Done(x)

\* lines 420-471
errorMessageAction(sc, x) ==
  IF sc.id = "error_message_01" THEN Await(Loading(x, TRUE), "request", sc.id, 350, 500)
  ELSE IF sc.id = "error_message_02" THEN Await(Loading(x, TRUE), "request", sc.id, 350, 401)
  ELSE IF sc.id = "error_message_03" THEN Await(Loading(x, TRUE), "request", sc.id, 300, 500)
  ELSE IF sc.id = "error_message_04" THEN Await(Loading(x, TRUE), "request", sc.id, 250, 500)
  ELSE IF sc.id = "error_message_05" THEN Done(Loading(x, TRUE))
  ELSE Done(x)

\* mutant of perfDelay: the factor is not taken modulo 3
perfDelayUncapped(count) == PerfBaseMs * (count + 1)

\* perf_04: const n = (count % 3) + 1; ... await sleep(1200 * n)
perfDelay(count) == PerfBaseMs * ((count % PerfCycle) + 1)

\* lines 473-508
perfAction(sc, x) ==
  IF sc.id = "perf_01" THEN Await(Loading(x, TRUE), "sleep", sc.id, 5000, 0)
  ELSE IF sc.id = "perf_02" THEN
    Show([x EXCEPT !.items = Rows(HeavyRows)], "success", "Loaded heavy list")
  ELSE IF sc.id = "perf_03" THEN Show(x, "success", "Type in the input; it will lag")
  ELSE IF sc.id = "perf_04" THEN
    Await([Loading(x, TRUE) EXCEPT !.count = @ + 1], "sleep", sc.id, perfDelay(x.count), 0)
  ELSE IF sc.id = "perf_05" THEN Await(Loading(x, TRUE), "sleep", sc.id, 8000, 0)
  ELSE Done(x)

\* handlePrimaryAction up to its first await (or to its end)
handlePrimaryAction(sc, x0) ==
  LET x == addLog(x0, <<"Primary action clicked for", sc.id>>)
  IN  IF sc.category = "crash" THEN crashAction(sc, x)
      ELSE IF sc.category = "no_response" THEN noResponseAction(sc, x)
      ELSE IF sc.category = "ui_issue" THEN uiIssueAction(sc, x)
      ELSE IF sc.category = "data_wrong" THEN dataWrongAction(sc, x)
      ELSE IF sc.category = "flow_nav" THEN flowNavAction(sc, x)
      ELSE IF sc.category = "auth" THEN authAction(sc, x)
      ELSE IF sc.category = "error_message" THEN errorMessageAction(sc, x)
      ELSE IF sc.category = "perf" THEN perfAction(sc, x)
      ELSE Done(x)

\* mutant of Settle: try / finally without a catch block
SettleUncaught(x, t, onOk, onError, caught) ==
  LET r == fakeRequest(t.status)
      o == IF r.ok THEN onOk ELSE Done(x)
  IN  [o EXCEPT !.st = Loading(@, FALSE), !.fault = ~r.ok]

\* mutant of Settle: no finally block
SettleWithoutFinally(x, t, onOk, onError, caught) ==
  LET r == fakeRequest(t.status)
      o == IF r.ok THEN onOk ELSE onError
  IN  [o EXCEPT !.fault = ~r.ok /\ ~caught]

\* the catch / finally of an awaited fakeRequest: onError is what the catch
\* block does, and without a catch block the HttpError leaves the handler
Settle(x, t, onOk, onError, caught) ==
  LET r == fakeRequest(t.status)
      o == IF r.ok THEN onOk ELSE onError
  IN  [o EXCEPT !.st = Loading(@, FALSE), !.fault = ~r.ok /\ ~caught]

\* handlePrimaryAction from the await that timer t ends, to its end
resumePrimaryAction(t, x) ==
  IF t.id = "data_wrong_05" THEN
    Settle(x, t, Show(x, "success", "Fetched latest (but UI stale)"), Done(x), FALSE)
  ELSE IF t.id = "flow_nav_04" THEN Done(x)
  ELSE IF t.id = "auth_02" THEN
    Settle(x, t, Done(x),
           IF t.status = 401
             THEN Show(go(t.id, x, "login"), "error", "401 Unauthorized")
             ELSE Show(x, "error", "Unknown error"), TRUE)
  ELSE IF t.id = "auth_03" THEN
    Settle(x, t, Done(x),
           IF t.status = 401
             THEN Show(go(t.id, x, "login"), "error", "Session expired (401)")
             ELSE Show(x, "error", "Unknown error"), TRUE)
  ELSE IF t.id = "auth_05" THEN
    Settle(x, t, Done(x), Show(x, "error", "Unknown error"), TRUE)
  ELSE IF t.id = "error_message_01" THEN Settle(x, t, Done(x), Done(x), TRUE)
  ELSE IF t.id = "error_message_02" THEN
    Settle(x, t, Done(x), Show(x, "error", "Network error, please retry"), TRUE)
  ELSE IF t.id = "error_message_03" THEN
    Settle(x, t, Done(x),
           [Show(x, "error", "Save failed") EXCEPT
              !.spawn = <<Timer("toast2", t.id, SecondToastMs, 0, "")>>], TRUE)
  ELSE IF t.id = "error_message_04" THEN
    Settle(x, t, Done(x), Show(x, "error", "Save failed (flashing)"), TRUE)
  ELSE IF t.id = "perf_01" THEN Show(Loading(x, FALSE), "success", "Report loaded")
  ELSE IF t.id = "perf_04" THEN
    [Show(Loading(x, FALSE), "success", "Loaded after ms") EXCEPT !.st.toast.arg = t.ms]
  ELSE IF t.id = "perf_05" THEN
    Show([Loading(x, FALSE) EXCEPT !.items = Rows(HeavierRows)], "success",
         "Loaded slow + heavy render")
  ELSE Done(x)

\* mutant of timerCallback: a toast that is already shown is not shown again
timerCallbackDeduplicates(t, x) ==
  IF t.kind = "toast" THEN Done([x EXCEPT !.toast = NoToast])
  ELSE IF t.kind = "redirect" THEN Done(go(t.id, x, t.to))
  ELSE IF t.kind = "expiry" THEN Done([x EXCEPT !.token = NoToken])
  ELSE IF t.kind = "toast2" THEN
    IF x.toast = Toast("error", "Save failed") THEN Done(x)
    ELSE Show(x, "error", "Save failed")
  ELSE resumePrimaryAction(t, x)

\* the callback of timer t
timerCallback(t, x) ==
  IF t.kind = "toast" THEN Done([x EXCEPT !.toast = NoToast])
  ELSE IF t.kind = "redirect" THEN Done(go(t.id, x, t.to))
  ELSE IF t.kind = "expiry" THEN Done([x EXCEPT !.token = NoToken])
  ELSE IF t.kind = "toast2" THEN Show(x, "error", "Save failed")
  ELSE resumePrimaryAction(t, x)

----------------------------------------------------------------------------
(* Effects of a committed render *)

\* mutant of toastMs: one duration for every scenario
toastMsOneDuration(sc) == ToastMs

toastMs(sc) == IF sc.id = "error_message_04" THEN FlashToastMs ELSE ToastMs

Without(tm, kind) == SelectSeq(tm, LAMBDA t : ~(t.live /\ t.kind = kind))

\* mutant of toastEffect: the effect returns no cleanup
toastEffectNoCleanup(sc, old, new, shown, tm) ==
  IF (shown \/ (old.toast # NoToast /\ new.toast = NoToast)) /\ new.toast # NoToast
    THEN Append(tm, Timer("toast", sc.id, toastMs(sc), 0, ""))
    ELSE tm

\* toast auto hide: the effect runs again when toast is another object than in
\* the render before; its cleanup clears the timer it had set
toastEffect(sc, old, new, shown, tm) ==
  LET changed == shown \/ (old.toast # NoToast /\ new.toast = NoToast)
      cleaned == IF changed THEN Without(tm, "toast") ELSE tm
  IN  IF changed /\ new.toast # NoToast
        THEN Append(cleaned, Timer("toast", sc.id, toastMs(sc), 0, ""))
        ELSE cleaned

\* mutant of redirectEffect: the login route does not redirect back
redirectEffectOneWay(sc, old, new, tm) ==
  IF sc.id # "auth_04" \/ new.route = old.route THEN tm
  ELSE LET cleaned == Without(tm, "redirect")
       IN  IF new.route = "restricted"
             THEN Append(cleaned, Timer("redirect", sc.id, RedirectMs, 0, "login"))
             ELSE cleaned

\* auth_04 redirect loop: the effect runs again when route changes
redirectEffect(sc, old, new, tm) ==
  IF sc.id # "auth_04" \/ new.route = old.route THEN tm
  ELSE LET cleaned == Without(tm, "redirect")
       IN  IF new.route = "restricted"
             THEN Append(cleaned, Timer("redirect", sc.id, RedirectMs, 0, "login"))
           ELSE IF new.route = "login"
             THEN Append(cleaned, Timer("redirect", sc.id, RedirectMs, 0, "restricted"))
           ELSE cleaned

Effects(sc, old, new, shown, tm) ==
  redirectEffect(sc, old, new, toastEffect(sc, old, new, shown, tm))

\* mutant of Mount: the overlay effect tests the category
MountOverlayByCategory(sc) ==
  [InitialSession EXCEPT !.overlayOn = (sc.category = "no_response")]

\* first render of a ScenarioView and its mount effects (the overlay effect)
Mount(sc) == [InitialSession EXCEPT !.overlayOn = (sc.id = "no_response_04")]

\* mutant of Unmount: the redirect effect returns no cleanup
UnmountKeepsRedirect(tm) ==
  LET kept == Without(tm, "toast")
  IN  [i \in 1..Len(kept) |-> [kept[i] EXCEPT !.live = FALSE]]

\* unmount of the ScenarioView: the effect cleanups run, and nothing else
Unmount(tm) ==
  LET kept == Without(Without(tm, "toast"), "redirect")
  IN  [i \in 1..Len(kept) |-> [kept[i] EXCEPT !.live = FALSE]]

\* mutant of mounted: the state lives outside the ScenarioView
mountedAlways(t) == TRUE

\* a state setter of a ScenarioView updates the state of that ScenarioView
\* while it is mounted and does nothing afterwards
mounted(t) == t.live

\* A throw in handlePrimaryAction rejects the promise the async function
\* returned to onClick; getDerivedStateFromError of the boundary runs for a
\* throw while a child renders.
faultSink(origin) == IF origin = "render" THEN "boundary" ELSE "unhandledrejection"

----------------------------------------------------------------------------
(* The upload client (App of src/unnamed/part_000): a second page, with    *)
(* its own state.  app is the state of the component and the count of blob *)
(* URLs the page has created; inflight holds, in the order they were       *)
(* started, what the page is waiting for: a fetch, the body of a response, *)
(* a clipboard write, or the timer that resets copied.                     *)

\* the videos the user can choose from
Files == {"a.mp4", "b.mp4"}
\* file = null
NoFile == "null"

\* calls of URL.createObjectURL in one run
MaxUrls == 3
\* awaits and timers of the upload client pending at the same time
MaxInFlight == 2

\* the report the service returns for a video; result = null is NoData
AnalysisResult(f, md) == [file |-> f, issue_markdown |-> md]
NoData == AnalysisResult(NoFile, FALSE)

\* errorMsg = ""
NoError == << >>

\* the useState initial values of App
InitialApp ==
  [ status |-> "idle", file |-> NoFile, videoUrl |-> << >>, result |-> NoData,
    errorMsg |-> NoError, copied |-> "", urls |-> 0 ]

\* one pending await or timer of the upload client
Pending(kind, f, arg) == [kind |-> kind, file |-> f, arg |-> arg]

----------------------------------------------------------------------------
(* Actions *)

\* what the last task did; settled is how the fakeRequest it resumed ended
NoResult == [ok |-> TRUE, status |-> 0]

Act(name, kind, live, o) ==
  [name |-> name, kind |-> kind, live |-> live, fault |-> o.fault, shown |-> o.shown,
   settled |-> NoResult]

NoAct(name) ==
  [name |-> name, kind |-> "", live |-> FALSE, fault |-> FALSE, shown |-> FALSE,
   settled |-> NoResult]

InView == selected # NoScenario /\ ~hasError

\* mutant of InBox: the overlay lets clicks through
InBoxThroughOverlay == InView

\* a click on a control inside the content box, which the overlay covers
InBox == InView /\ ~st.overlayOn

\* one user event on the mounted ScenarioView whose handler code does o
UserEvent(name, o) ==
  /\ Len(o.st.history) <= MaxHist
  /\ CountOf(timers, Free) + Len(o.spawn) <= MaxPending
  /\ st' = o.st
  /\ timers' = Effects(selected, st, o.st, o.shown, timers \o o.spawn)
  /\ hasError' = (o.fault /\ faultSink("handler") = "boundary")
  /\ lastAct' = Act(name, "", TRUE, o)
  /\ used < MaxSteps
  /\ used' = used + 1
  /\ UNCHANGED <<app, inflight>>
  /\ UNCHANGED selected

\* catalog button of scenario sc
Select(sc) ==
  /\ selected = NoScenario
  /\ used < MaxSteps
  /\ used' = used + 1
  /\ UNCHANGED <<app, inflight>>
  /\ selected' = sc
  /\ st' = Mount(sc)
  /\ hasError' = FALSE
  /\ lastAct' = NoAct("Select")
  /\ UNCHANGED timers

\* mutant of resetToHome: Back to Home is disabled while loading
resetToHomeWhenIdle ==
  /\ selected # NoScenario
  /\ ~st.loading
  /\ selected' = NoScenario
  /\ st' = NoSession
  /\ hasError' = FALSE
  /\ timers' = Unmount(timers)
  /\ lastAct' = [NoAct("resetToHome") EXCEPT
                  !.kind = IF Without(timers, "redirect") # timers THEN "redirect" ELSE ""]
  /\ UNCHANGED <<used, app, inflight>>

\* Back to Home / Back to Bug Farm; lastAct.kind tells whether the unmount
\* cleared a pending redirect timer
resetToHome ==
  /\ selected # NoScenario
  /\ selected' = NoScenario
  /\ st' = NoSession
  /\ hasError' = FALSE
  /\ timers' = Unmount(timers)
  /\ lastAct' = [NoAct("resetToHome") EXCEPT
                  !.kind = IF Without(timers, "redirect") # timers THEN "redirect" ELSE ""]
  /\ UNCHANGED <<used, app, inflight>>

PrimaryAction ==
  /\ InBox
  /\ UserEvent("PrimaryAction", handlePrimaryAction(selected, st))

\* Go to Details, Entry A, Entry B, Open Restricted
GoButton(to) ==
  /\ InBox
  /\ \/ selected.id = "crash_03" /\ to = "details"
     \/ selected.id = "flow_nav_03" /\ to \in {"details", "not_found"}
     \/ selected.category = "auth" /\ to = "restricted"
  /\ UserEvent("GoButton", Done(go(selected.id, st, to)))

BackButton ==
  /\ InBox
  /\ selected.id = "flow_nav_05"
  /\ UserEvent("BackButton", Done(back(st)))

Login ==
  /\ InBox
  /\ selected.category = "auth"
  /\ UserEvent("Login", Show([st EXCEPT !.token = "token_ok"], "success",
                             "Logged in (token set)"))

Logout ==
  /\ InBox
  /\ selected.category = "auth"
  /\ UserEvent("Logout", Show([st EXCEPT !.token = NoToken], "success",
                              "Logged out (token cleared)"))

\* Toggle Dark Mode, Break Layout, Toggle Long Text
CosmeticButton ==
  /\ InBox
  /\ \/ selected.id = "ui_issue_02"
        /\ UserEvent("ToggleDark", Done([st EXCEPT !.dark = ~@]))
     \/ selected.id = "ui_issue_01"
        /\ UserEvent("BreakLayout", Done([st EXCEPT !.layoutBroken = TRUE]))
     \/ selected.id = "ui_issue_05"
        /\ UserEvent("ToggleLongText", Done([st EXCEPT !.longText = ~@]))

LoadHeavyList ==
  /\ InBox
  /\ selected.id = "perf_02"
  /\ UserEvent("LoadHeavyList", Done([st EXCEPT !.items = Rows(HeavyRows)]))

\* the text input; onTypeWithLag burns a bounded number of iterations first
TypeText(v) ==
  /\ InBox
  /\ v # st.text
  /\ UserEvent("TypeText", Done([st EXCEPT !.text = v]))

ToggleCheckbox ==
  /\ InBox
  /\ UserEvent("ToggleCheckbox", Done([st EXCEPT !.checkbox = ~@]))

SetTab(tb) ==
  /\ InBox
  /\ selected.category = "data_wrong"
  /\ UserEvent("SetTab", Done([st EXCEPT !.tab = tb]))

Due(i) == timers[i].rem = 0 /\ \A j \in 1..(i - 1) : timers[j].rem # 0

Remove(tm, i) == SubSeq(tm, 1, i - 1) \o SubSeq(tm, i + 1, Len(tm))

\* mutant of Fire: a timer task renders the children of the boundary again
FireResetsBoundary(i) ==
  LET t == timers[i]
      applies == mounted(t) /\ selected # NoScenario
      o == timerCallback(t, IF applies THEN st ELSE InitialSession)
      spawn == [k \in 1..Len(o.spawn) |-> [o.spawn[k] EXCEPT !.live = t.live]]
      rest == Remove(timers, i) \o spawn
  IN  /\ Due(i)
      /\ applies => Len(o.st.history) <= MaxHist
      /\ st' = IF applies THEN o.st ELSE st
      /\ timers' = IF applies THEN Effects(selected, st, o.st, o.shown, rest) ELSE rest
      /\ hasError' = (o.fault /\ faultSink("handler") = "boundary")
      /\ lastAct' = [Act("Fire", t.kind, t.live, o) EXCEPT
                        !.shown = applies /\ o.shown,
                        !.settled = IF t.kind = "request" THEN fakeRequest(t.status)
                                    ELSE NoResult]
      /\ UNCHANGED <<selected, used, app, inflight>>

\* the browser runs the callback of the timer that is due
Fire(i) ==
  LET t == timers[i]
      applies == mounted(t) /\ selected # NoScenario
      o == timerCallback(t, IF applies THEN st ELSE InitialSession)
      spawn == [k \in 1..Len(o.spawn) |-> [o.spawn[k] EXCEPT !.live = t.live]]
      rest == Remove(timers, i) \o spawn
  IN  /\ Due(i)
      /\ applies => Len(o.st.history) <= MaxHist
      /\ st' = IF applies THEN o.st ELSE st
      /\ timers' = IF applies THEN Effects(selected, st, o.st, o.shown, rest) ELSE rest
      /\ hasError' = (hasError \/ (o.fault /\ faultSink("handler") = "boundary"))
      /\ lastAct' = [Act("Fire", t.kind, t.live, o) EXCEPT
                        !.shown = applies /\ o.shown,
                        !.settled = IF t.kind = "request" THEN fakeRequest(t.status)
                                    ELSE NoResult]
      /\ UNCHANGED <<selected, used, app, inflight>>

MinRem ==
  IF timers = << >> THEN 0
  ELSE CHOOSE m \in {timers[i].rem : i \in 1..Len(timers)} :
         \A i \in 1..Len(timers) : m <= timers[i].rem

\* time passes: up to the next timer that is due, or for a pause of the user
Advance(d) ==
  /\ timers # << >>
  /\ MinRem > 0
  /\ d <= MinRem
  /\ d < MinRem => used < MaxSteps
  /\ timers' = [i \in 1..Len(timers) |-> [timers[i] EXCEPT !.rem = @ - d]]
  /\ used' = IF d < MinRem THEN used + 1 ELSE used
  /\ UNCHANGED <<app, inflight>>
  /\ lastAct' = NoAct("Advance")
  /\ UNCHANGED <<selected, hasError, st>>

Init ==
  /\ selected = NoScenario
  /\ hasError = FALSE
  /\ st = NoSession
  /\ timers = << >>
  /\ lastAct = NoAct("Init")
  /\ used = 0
  /\ app = InitialApp
  /\ inflight = << >>

Next ==
  \/ \E sc \in Scenarios : Select(sc)
  \/ resetToHome
  \/ PrimaryAction
  \/ \E to \in Routes : GoButton(to)
  \/ BackButton
  \/ Login
  \/ Logout
  \/ CosmeticButton
  \/ LoadHeavyList
  \/ \E v \in Texts : TypeText(v)
  \/ ToggleCheckbox
  \/ \E tb \in {"A", "B"} : SetTab(tb)
  \/ \E i \in 1..Len(timers) : Fire(i)
  \/ \E d \in UserPauses \cup {MinRem} : Advance(d)

Spec == Init /\ [][Next]_vars

----------------------------------------------------------------------------
(* go and back as functions of the navigation state: every scenario, every *)
(* history the view can hold (it starts at home, or at details after the   *)
(* flow_nav_05 replacement) and every target route.                        *)

Histories ==
  UNION {[1..n -> Routes] : n \in 1..MaxHist}

NavInit ==
  /\ selected \in Scenarios
  /\ hasError = FALSE
  /\ \E h \in Histories :
       /\ h[1] = "home" \/ (selected.id = "flow_nav_05" /\ h[1] = "details")
       /\ st = [Mount(selected) EXCEPT !.history = h, !.route = h[Len(h)]]
  /\ timers = << >>
  /\ lastAct = NoAct("Init")
  /\ used = 0
  /\ app = InitialApp
  /\ inflight = << >>

NavBack ==
  /\ st' = back(st)
  /\ lastAct' = NoAct("back")
  /\ UNCHANGED <<selected, hasError, timers, used, app, inflight>>

NavGo(to) ==
  /\ Len(st.history) < MaxHist
  /\ st' = go(selected.id, st, to)
  /\ lastAct' = NoAct("go")
  /\ UNCHANGED <<selected, hasError, timers, used, app, inflight>>

NavNext == NavBack \/ \E to \in Routes : NavGo(to)

SpecNav == NavInit /\ [][NavNext]_vars

----------------------------------------------------------------------------
(* The redirect loop of auth_04 with fair timers. The history of the code   *)
(* grows by one entry per redirect without bound; here the view keeps the   *)
(* newest MaxHist entries of it, and go and the effects read the last one.  *)

Window(x) ==
  IF Len(x.history) > MaxHist
    THEN [x EXCEPT !.history = SubSeq(@, Len(@) - MaxHist + 1, Len(@))]
    ELSE x

LoopInit ==
  /\ selected \in {sc \in Scenarios : sc.id = "auth_04"}
  /\ hasError = FALSE
  /\ st = Mount(selected)
  /\ timers = << >>
  /\ lastAct = NoAct("Init")
  /\ used = 0
  /\ app = InitialApp
  /\ inflight = << >>

\* the browser runs the callback of the timer that is due
LoopFire(i) ==
  LET t == timers[i]
      o == timerCallback(t, st)
      rest == Remove(timers, i) \o o.spawn
  IN  /\ Due(i)
      /\ mounted(t)
      /\ st' = Window(o.st)
      /\ timers' = Effects(selected, st, o.st, o.shown, rest)
      /\ hasError' = (hasError \/ (o.fault /\ faultSink("handler") = "boundary"))
      /\ lastAct' = Act("Fire", t.kind, t.live, o)
      /\ UNCHANGED <<selected, used, app, inflight>>

LoopNext ==
  \/ PrimaryAction
  \/ GoButton("restricted")
  \/ Login
  \/ Logout
  \/ \E i \in 1..Len(timers) : LoopFire(i)
  \/ \E d \in UserPauses \cup {MinRem} : Advance(d)

\* timers that are due fire, and time passes up to the next timer
SpecLoop ==
  /\ LoopInit
  /\ [][LoopNext]_vars
  /\ WF_vars(\E i \in 1..Len(timers) : LoopFire(i))
  /\ WF_vars(Advance(MinRem))

----------------------------------------------------------------------------
(* fakeRequest as a function of its inputs: one request of every delay and  *)
(* status below, awaited by a caller that is gone when it settles.          *)

ProbeDelays == {100, 250, 600}
ProbeStatuses == {200, 204, 302, 399, 400, 401, 403, 404, 429, 500, 503, 599}

ReqInit ==
  /\ selected = NoScenario
  /\ hasError = FALSE
  /\ st = NoSession
  /\ \E ms \in ProbeDelays, status \in ProbeStatuses :
       timers = <<[Timer("request", "probe", ms, status, "") EXCEPT !.live = FALSE]>>
  /\ lastAct = NoAct("Init")
  /\ used = 0
  /\ app = InitialApp
  /\ inflight = << >>

ReqNext ==
  \/ \E i \in 1..Len(timers) : Fire(i)
  \/ \E d \in UserPauses \cup {MinRem} : Advance(d)

\* the delay passes and the timer of sleep fires
SpecReq ==
  /\ ReqInit
  /\ [][ReqNext]_vars
  /\ WF_vars(\E i \in 1..Len(timers) : Fire(i))
  /\ WF_vars(Advance(MinRem))

----------------------------------------------------------------------------
(* perf_04 after any number of earlier triggers: the view starts in the     *)
(* state that k primary actions leave behind once their waits are over and  *)
(* their toasts have been dismissed.                                        *)

MaxTriggers == 5

RECURSIVE AfterTriggers(_, _)
AfterTriggers(sc, k) ==
  IF k = 0 THEN Mount(sc)
  ELSE [handlePrimaryAction(sc, AfterTriggers(sc, k - 1)).st EXCEPT
          !.loading = FALSE, !.toast = NoToast]

PerfInit ==
  /\ selected \in {sc \in Scenarios : sc.id = "perf_04"}
  /\ hasError = FALSE
  /\ used = 0
  /\ app = InitialApp
  /\ inflight = << >>
  /\ \E k \in 0..MaxTriggers : st = AfterTriggers(selected, k)
  /\ timers = << >>
  /\ lastAct = NoAct("Init")

PerfNext ==
  \/ PrimaryAction
  \/ \E i \in 1..Len(timers) : Fire(i)
  \/ \E d \in UserPauses \cup {MinRem} : Advance(d)

SpecPerf == PerfInit /\ [][PerfNext]_vars

----------------------------------------------------------------------------
(* CrashBoundary with a child that throws while it renders. No render of    *)
(* ScenarioView throws, so Spec never faults the boundary; here any render  *)
(* of the mounted view may throw, which is the input of the boundary.       *)

\* a throw while the ScenarioView renders: getDerivedStateFromError sets
\* hasError, render returns the fallback, and the commit unmounts the view
\* and puts the fallback on the page
ChildRenderFault ==
  /\ InView
  /\ selected' = selected
  /\ hasError' = (faultSink("render") = "boundary")
  /\ st' = NoSession
  /\ timers' = Unmount(timers)
  /\ lastAct' = [NoAct("ChildRenderFault") EXCEPT !.fault = TRUE]
  /\ UNCHANGED <<used, app, inflight>>

\* React calls componentDidCatch in the same commit, once the fallback is on
\* the page: console.error gets one record, and lastAct.kind is the scenario
\* id that record names
componentDidCatch ==
  /\ lastAct.name = "ChildRenderFault"
  /\ lastAct' = [NoAct("componentDidCatch") EXCEPT !.kind = selected.id, !.fault = TRUE]
  /\ UNCHANGED <<selected, hasError, st, timers, used, app, inflight>>

\* nothing else runs between the two halves of the commit
BoundaryNext ==
  \/ lastAct.name # "ChildRenderFault" /\ Next
  \/ ChildRenderFault
  \/ componentDidCatch

SpecBoundary == Init /\ [][BoundaryNext]_vars

----------------------------------------------------------------------------
(* The catalog screen alone: its buttons and Back to Home.                  *)

CatalogNext ==
  \/ \E sc \in Scenarios : Select(sc)
  \/ resetToHome

SpecCatalog == Init /\ [][CatalogNext]_vars

----------------------------------------------------------------------------
(* Scenarios whose primary action runs to its end within the click, after   *)
(* any number of earlier triggers.                                          *)

RepeatScenarios ==
  {sc \in Scenarios :
     sc.id \in {"data_wrong_01", "data_wrong_02", "data_wrong_03", "data_wrong_04",
                "no_response_01", "no_response_02", "no_response_03", "no_response_05"}}

RepeatInit ==
  /\ selected \in RepeatScenarios
  /\ hasError = FALSE
  /\ used = 0
  /\ app = InitialApp
  /\ inflight = << >>
  /\ \E k \in 0..MaxTriggers : st = AfterTriggers(selected, k)
  /\ timers = << >>
  /\ lastAct = NoAct("Init")

RepeatNext ==
  \/ PrimaryAction
  \/ ToggleCheckbox
  \/ \E tb \in {"A", "B"} : SetTab(tb)
  \/ \E i \in 1..Len(timers) : Fire(i)
  \/ \E d \in UserPauses \cup {MinRem} : Advance(d)

SpecRepeat == RepeatInit /\ [][RepeatNext]_vars

----------------------------------------------------------------------------
(* The log up to its limit: the page as in Spec, or a view whose primary    *)
(* action has already been clicked up to LogLimit times, in the scenarios   *)
(* where a primary action changes nothing but the log.                      *)

LogOnlyScenarios ==
  {sc \in Scenarios :
     sc.id \in {"crash_01", "crash_04", "crash_05", "no_response_01", "no_response_05",
                "ui_issue_03", "ui_issue_04"}}

\* the view after k primary actions, the i-th most recent one at time -i
LoggedBefore(sc, k) ==
  [Mount(sc) EXCEPT
     !.log = [i \in 1..k |-> <<0 - i, "Primary action clicked for", sc.id>>]]

LogInit ==
  \/ Init
  \/ /\ selected \in LogOnlyScenarios
     /\ hasError = FALSE
     /\ \E k \in 1..LogLimit : st = LoggedBefore(selected, k)
     /\ timers = << >>
     /\ lastAct = NoAct("Init")
     /\ used = 0
     /\ app = InitialApp
     /\ inflight = << >>

SpecLog == LogInit /\ [][Next]_vars

----------------------------------------------------------------------------
(* The upload client: one action per event handler and per continuation of *)
(* onGenerate and of the copy handlers.  lastAct.kind of a continuation of *)
(* onGenerate is the file its request was issued for.                      *)

\* const canGenerate = useMemo(() => !!file && status !== "analyzing", ...)
canGenerate == app.file # NoFile /\ app.status # "analyzing"

AppAct(name, kind) ==
  /\ lastAct' = [NoAct(name) EXCEPT !.kind = kind]
  /\ UNCHANGED <<selected, hasError, st, timers, used>>

\* the change event of the file input: another file, or none
onPickFile(f) ==
  /\ f # app.file
  /\ f # NoFile => app.urls < MaxUrls
  /\ app' = [app EXCEPT !.file = f, !.result = NoData, !.errorMsg = NoError,
                        !.copied = "", !.status = "idle",
                        !.videoUrl = IF f # NoFile THEN <<"blob", app.urls + 1>>
                                     ELSE << >>,
                        !.urls = IF f # NoFile THEN @ + 1 ELSE @]
  /\ UNCHANGED inflight
  /\ AppAct("onPickFile", "")

\* a click on Generate Issue (disabled = !canGenerate), up to await fetch
onGenerate ==
  /\ canGenerate
  /\ Len(inflight) < MaxInFlight
  /\ app' = [app EXCEPT !.status = "analyzing", !.errorMsg = NoError,
                        !.result = NoData, !.copied = ""]
  /\ inflight' = Append(inflight, Pending("fetch", app.file, ""))
  /\ AppAct("onGenerate", "")

\* the catch block of onGenerate
catch(x, message) == [x EXCEPT !.errorMsg = message, !.status = "error"]

\* fetch settles: it rejects, or it resolves with a response whose body the
\* handler then awaits (resp.text() if !resp.ok, resp.json() otherwise)
onGenerateFetched(i, r) ==
  /\ inflight[i].kind = "fetch"
  /\ IF r = "reject"
       THEN /\ app' = catch(app, <<"Failed to fetch">>)
            /\ inflight' = Remove(inflight, i)
       ELSE /\ app' = app
            /\ inflight' = [inflight EXCEPT ![i] =
                 IF r = "200" THEN Pending("json", @.file, "")
                 ELSE Pending("text", @.file, r)]
  /\ AppAct("onGenerateFetched", inflight[i].file)

\* resp.text() settles: throw new Error(`API ${resp.status}: ${t}`)
onGenerateText(i, ok) ==
  /\ inflight[i].kind = "text"
  /\ app' = catch(app, IF ok THEN <<"API", inflight[i].arg>>
                       ELSE <<"Failed to fetch">>)
  /\ inflight' = Remove(inflight, i)
  /\ AppAct("onGenerateText", inflight[i].file)

\* resp.json() settles: setResult(data); setStatus("done")
onGenerateJson(i, ok, md) ==
  /\ inflight[i].kind = "json"
  /\ app' = IF ok THEN [app EXCEPT !.result = AnalysisResult(inflight[i].file, md),
                                   !.status = "done"]
            ELSE catch(app, <<"Unexpected token">>)
  /\ inflight' = Remove(inflight, i)
  /\ AppAct("onGenerateJson", inflight[i].file)

\* the copy buttons are rendered while status === "done" && result
onCopyJSON ==
  /\ app.status = "done" /\ app.result # NoData
  /\ Len(inflight) < MaxInFlight
  /\ inflight' = Append(inflight, Pending("clipboard", app.result.file, "json"))
  /\ UNCHANGED app
  /\ AppAct("onCopyJSON", "")

\* Copy Markdown is disabled without result.issue_markdown
onCopyMarkdown ==
  /\ app.status = "done" /\ app.result # NoData
  /\ app.result.issue_markdown
  /\ Len(inflight) < MaxInFlight
  /\ inflight' = Append(inflight, Pending("clipboard", app.result.file, "md"))
  /\ UNCHANGED app
  /\ AppAct("onCopyMarkdown", "")

\* navigator.clipboard.writeText settles: setCopied and the reset timer, or
\* a rejection that nothing catches
onCopied(i, ok) ==
  /\ inflight[i].kind = "clipboard"
  /\ app' = IF ok THEN [app EXCEPT !.copied = inflight[i].arg] ELSE app
  /\ inflight' = IF ok THEN Append(Remove(inflight, i), Pending("copied", "", ""))
                 ELSE Remove(inflight, i)
  /\ AppAct("onCopied", "")

\* the oldest reset timer fires (all have the same delay): setCopied("")
copiedTimer(i) ==
  /\ inflight[i].kind = "copied"
  /\ \A j \in 1..(i - 1) : inflight[j].kind # "copied"
  /\ app' = [app EXCEPT !.copied = ""]
  /\ inflight' = Remove(inflight, i)
  /\ AppAct("copiedTimer", "")

AppNext ==
  \/ \E f \in Files \cup {NoFile} : onPickFile(f)
  \/ onGenerate
  \/ \E i \in 1..Len(inflight), r \in {"reject", "200", "422", "500"} :
       onGenerateFetched(i, r)
  \/ \E i \in 1..Len(inflight), ok \in BOOLEAN : onGenerateText(i, ok)
  \/ \E i \in 1..Len(inflight), ok, md \in BOOLEAN : onGenerateJson(i, ok, md)
  \/ onCopyJSON
  \/ onCopyMarkdown
  \/ \E i \in 1..Len(inflight), ok \in BOOLEAN : onCopied(i, ok)
  \/ \E i \in 1..Len(inflight) : copiedTimer(i)

SpecApp == Init /\ [][AppNext]_vars

----------------------------------------------------------------------------
(* Properties *)

Last(q) == q[Len(q)]
Front(q) == SubSeq(q, 1, Len(q) - 1)
LiveTimers(kind) == {i \in 1..Len(timers) : timers[i].live /\ timers[i].kind = kind}

\* C1: whenever the primary action of a crash scenario raises its scripted
\* fault, the crash boundary is faulted (hasError) in the state that follows.
C1_FaultReachesBoundary ==
  (lastAct.name = "PrimaryAction" /\ lastAct.fault) => hasError

\* C2: in crash_02 with empty or whitespace-only text, and in crash_03 with
\* route other than details, the primary action raises no fault and shows the
\* error toast of the scenario; the boundary stays running and route, counter
\* and itemList are unchanged.
C2_PreconditionUnmetOnlyToasts ==
  [][ (/\ lastAct'.name = "PrimaryAction"
       /\ \/ selected.id = "crash_02" /\ \A k \in 1..Len(st.text) : st.text[k] = " "
          \/ selected.id = "crash_03" /\ st.route # "details")
      => /\ ~lastAct'.fault
         /\ ~hasError'
         /\ st'.toast.type = "error"
         /\ st'.toast.text = IF selected.id = "crash_02"
                               THEN "Please type something first"
                               ELSE "Go to Details first"
         /\ st'.route = st.route
         /\ st'.history = st.history
         /\ st'.count = st.count
         /\ st'.items = st.items ]_vars

C2_Witness ==
  /\ lastAct.name = "PrimaryAction"
  /\ selected.id = "crash_02"
  /\ st.text = <<" ">>
  /\ st.toast.text = "Please type something first"

\* C3: in the state right after a scenario instance is torn down, no timer
\* and no suspended handler is pending any more.
C3_TeardownCancelsEveryTimer ==
  lastAct.name = "resetToHome" => timers = << >>

\* C4: a timer callback or resumed handler of a discarded scenario instance
\* changes no field of the session state of the instance that is live then.
C4_StaleCallbacksChangeNothing ==
  [][ (lastAct'.name = "Fire" /\ ~lastAct'.live) => st' = st ]_vars

C4_Witness ==
  /\ lastAct.name = "Fire"
  /\ ~lastAct.live
  /\ lastAct.kind \in {"sleep", "request"}
  /\ selected # NoScenario

\* C5: a selection starts from the initial session state whatever the
\* instance before it did (only the overlay of no_response_04 is on), and at
\* most one session is live: a session exists exactly while a scenario is
\* selected, a selection is made only from the catalog, and every timer whose
\* owner is mounted belongs to the selected scenario.
C5_FreshSession ==
  /\ [](/\ (selected = NoScenario) <=> (st = NoSession)
        /\ \A i \in 1..Len(timers) :
             timers[i].live => timers[i].id = selected.id)
  /\ [][ lastAct'.name = "Select"
         => /\ selected = NoScenario
            /\ st'.text = << >> /\ st'.checkbox = FALSE
            /\ st'.count = 0 /\ st'.items = << >> /\ st'.tab = "A"
            /\ st'.dark = FALSE /\ st'.layoutBroken = FALSE /\ st'.longText = FALSE
            /\ st'.overlayOn = (selected'.id = "no_response_04")
            /\ st'.loading = FALSE /\ st'.toast.type = "none"
            /\ st'.token = NoToken
            /\ st'.route = "home" /\ st'.history = <<"home">>
            /\ st'.log = << >> ]_vars

C5_Witness ==
  /\ lastAct.name = "Select"
  /\ timers # << >>
  /\ selected.id = "no_response_04"

\* C6: from every state of a selected scenario going back to the catalog is
\* possible and leaves no scenario selected, and from the catalog each of the
\* 40 scenarios can be selected (while the run has a step left) and then
\* shows its scenario view, not the crash fallback.
C6_NextScenarioAlwaysReachable ==
  /\ selected # NoScenario => ENABLED resetToHome
  /\ lastAct.name = "resetToHome" => selected = NoScenario /\ ~hasError
  /\ (selected = NoScenario /\ used < MaxSteps)
       => \A sc \in Scenarios : ENABLED Select(sc)
  /\ lastAct.name = "Select" => selected \in Scenarios /\ InView
  /\ Cardinality(Scenarios) = 40

C6_Witness ==
  /\ lastAct.name = "Select"
  /\ \E i \in 1..Len(timers) : timers[i].id = "flow_nav_04" /\ ~timers[i].live

\* C7: while a scenario is selected, routeHistory is not empty and its last
\* element is route.
C7_HistoryEndsAtRoute ==
  selected # NoScenario
    => Len(st.history) >= 1 /\ st.history[Len(st.history)] = st.route

C7_Witness ==
  /\ lastAct.name = "Fire"
  /\ lastAct.kind = "request"
  /\ st.route = "login"
  /\ Len(st.history) = 2

\* C8: back() on a routeHistory of one element changes nothing; on a longer
\* one it removes exactly the last entry and sets route to the new last entry.
C8_BackPopsOne ==
  [][ lastAct'.name = "back"
      => IF Len(st.history) = 1
           THEN st' = st
           ELSE /\ Append(st'.history, st.route) = st.history
                /\ st'.route = Last(st'.history)
                /\ st' = [st EXCEPT !.history = st'.history, !.route = st'.route] ]_vars

C8_Witness ==
  /\ lastAct.name = "back"
  /\ Len(st.history) = 2
  /\ st.route = "home"

\* C9: a push sets route to its target and appends exactly one entry, except
\* in flow_nav_05 with target details, where routeHistory becomes [details];
\* in flow_nav_05 route stays details once reached, and no other step than
\* back() and that replacement removes a history entry.
C9_PushAppendsExceptDefectMode ==
  [][ (selected # NoScenario /\ selected' = selected)
      => LET h == st.history
             g == st'.history
             defect == selected.id = "flow_nav_05" /\ st'.route = "details"
         IN  /\ \/ g = h /\ st'.route = st.route
                \/ ~defect /\ g = Append(h, st'.route)
                \/ defect /\ g = <<"details">>
                \/ lastAct'.name = "BackButton" /\ Len(h) > 1 /\ g = Front(h)
             /\ (lastAct'.name = "PrimaryAction" /\ selected.id = "flow_nav_05")
                  => st'.route = "details"
             /\ (selected.id = "flow_nav_05" /\ st.route = "details")
                  => st'.route = "details" ]_vars

C9_Witness ==
  /\ selected.id = "flow_nav_05"
  /\ lastAct.name = "BackButton"
  /\ st.route = "details"
  /\ st.history = <<"details">>

\* C10: in a live scenario view a toast is present exactly when one dismissal
\* timer is pending for it, of 300 ms in error_message_04 and of 1500 ms in
\* every other scenario, and there is never more than one; a show leaves the
\* one dismissal timer freshly started, so no timer of an earlier toast
\* dismisses it.
C10_OneDismissalTimerPerToast ==
  InView =>
    LET pending == LiveTimers("toast")
    IN  /\ Cardinality(pending) <= 1
        /\ (st.toast # NoToast) <=> (Cardinality(pending) = 1)
        /\ \A i \in pending :
             /\ timers[i].ms = IF selected.id = "error_message_04" THEN 300 ELSE 1500
             /\ timers[i].rem <= timers[i].ms
             /\ lastAct.shown => timers[i].rem = timers[i].ms

C10_Witness ==
  /\ selected.id = "error_message_03"
  /\ lastAct.name = "Fire"
  /\ lastAct.kind = "toast2"
  /\ lastAct.shown
  /\ \E i \in LiveTimers("toast") : timers[i].rem = 1500

\* C11: a toast is dismissed by its own timer. Right after a show the toast is
\* on screen with its whole duration ahead (300 ms in error_message_04, 1500 ms
\* in every other scenario); while a toast is on screen no more than that
\* duration has passed since its show; and the dismissal timer leaves the
\* toast slot empty, without any click.
C11_ToastAutoDismiss ==
  InView =>
    LET d == IF selected.id = "error_message_04" THEN FlashToastMs ELSE ToastMs
    IN  /\ lastAct.shown =>
             /\ st.toast # NoToast
             /\ \E i \in LiveTimers("toast") : timers[i].rem = d
        /\ st.toast # NoToast =>
             \E i \in LiveTimers("toast") :
               timers[i].ms = d /\ timers[i].rem >= 0 /\ timers[i].rem <= d
        /\ (lastAct.name = "Fire" /\ lastAct.kind = "toast") => st.toast = NoToast

\* the flashing toast of error_message_04 has been dismissed by its timer
C11_Witness ==
  /\ selected.id = "error_message_04"
  /\ lastAct.name = "Fire"
  /\ lastAct.kind = "toast"
  /\ st.toast = NoToast

\* C12: in auth_04, once the route is restricted the redirect timers move it
\* to login and back to restricted again and again: each of the two routes
\* is followed by the other one, forever, and a timer never moves the route
\* anywhere else.
C12_RedirectLoopForever ==
  /\ [](st.route = "restricted" => <>(st.route = "login"))
  /\ [](st.route = "login" => <>(st.route = "restricted"))
  /\ [][lastAct'.name = "Fire" =>
          \/ st'.route = st.route
          \/ st.route = "restricted" /\ st'.route = "login"
          \/ st.route = "login" /\ st'.route = "restricted"]_vars

\* a redirect timer has brought the route back to restricted, without a token
C12_Witness ==
  /\ selected.id = "auth_04"
  /\ st.token = NoToken
  /\ lastAct.name = "Fire"
  /\ lastAct.kind = "redirect"
  /\ st.route = "restricted"
  /\ Len(st.history) = MaxHist

\* C13: leaving an auth_04 view whose redirect loop is running ends the loop:
\* a redirect timer is pending only while its auth_04 view is mounted, none
\* is left after the return to the catalog, and a redirect callback never
\* runs for a view that is gone.
C13_TeardownCancelsRedirectLoop ==
  /\ \A i \in 1..Len(timers) :
       timers[i].kind = "redirect" => timers[i].live /\ selected.id = "auth_04"
  /\ lastAct.name = "resetToHome" => LiveTimers("redirect") = {}
  /\ (lastAct.name = "Fire" /\ lastAct.kind = "redirect") =>
       lastAct.live /\ selected.id = "auth_04"

\* the user has left an auth_04 view while a redirect timer was pending
C13_Witness ==
  /\ lastAct.name = "resetToHome"
  /\ lastAct.kind = "redirect"
  /\ selected = NoScenario
  /\ \A i \in 1..Len(timers) : timers[i].kind # "redirect"

\* C14: in auth_02 the request of the primary action is a 401 when the click
\* sees no token and a 200 when it sees one. When the 401 comes back the
\* error toast "401 Unauthorized" is shown and login is pushed onto the
\* history and becomes the route; when the 200 comes back route, history and
\* toast stay as they are; either way loading is false afterwards.
C14_Auth02OutcomeFollowsToken ==
  /\ [](/\ InView
        /\ selected.id = "auth_02"
        /\ lastAct.name = "PrimaryAction"
        => /\ st.loading
           /\ Last(timers).kind = "request"
           /\ Last(timers).status = IF st.token = NoToken THEN 401 ELSE 200)
  /\ [][(/\ selected.id = "auth_02"
         /\ lastAct'.name = "Fire"
         /\ lastAct'.kind = "request"
         /\ lastAct'.live)
        => /\ ~st'.loading
           /\ ~lastAct'.settled.ok =>
                /\ lastAct'.settled.status = 401
                /\ st'.toast = Toast("error", "401 Unauthorized")
                /\ st'.route = "login"
                /\ st'.history = Append(st.history, "login")
           /\ lastAct'.settled.ok =>
                /\ lastAct'.settled.status = 200
                /\ st'.route = st.route
                /\ st'.history = st.history
                /\ st'.toast = st.toast]_vars

\* the 401 of a click without a token has come back
C14_Witness ==
  /\ selected.id = "auth_02"
  /\ lastAct.name = "Fire"
  /\ lastAct.kind = "request"
  /\ lastAct.live
  /\ ~lastAct.settled.ok
  /\ st.route = "login"
  /\ ~st.loading

\* the 200 of a click with a token has come back
C14_WitnessToken ==
  /\ selected.id = "auth_02"
  /\ lastAct.name = "Fire"
  /\ lastAct.kind = "request"
  /\ lastAct.live
  /\ lastAct.settled.ok
  /\ st.route = "home"

\* C15: in auth_03 the primary action logs in with a token that is cleared
\* 300 ms later, and the primary action clicked next, after that expiry,
\* runs into the expired session: it issues the request that comes back 401
\* (which shows "Session expired (401)" and moves the route to login).
C15_ActionAfterExpiryGets401 ==
  [][(/\ selected.id = "auth_03"
      /\ lastAct.name = "Fire"
      /\ lastAct.kind = "expiry"
      /\ lastAct.live
      /\ st.token = NoToken
      /\ lastAct'.name = "PrimaryAction")
     => /\ st'.loading
        /\ \E i \in 1..Len(timers') :
             /\ timers'[i].kind = "request"
             /\ timers'[i].id = "auth_03"
             /\ timers'[i].status = 401]_vars

\* C16: fakeRequest({ms, status}) settles only when its whole delay has
\* passed, with an HttpError of the status asked for when that status is 400
\* or more (400..599 in particular) and with {status} when it is below 400;
\* it does settle, and once it has settled nothing of it is left that could
\* settle again.
C16_FakeRequestDeterministic ==
  /\ <>(lastAct.name = "Fire")
  /\ [](timers # << >> => lastAct.settled = NoResult)
  /\ [][lastAct'.name = "Fire" =>
          LET t == timers[1]
          IN  /\ t.rem = 0
              /\ Len(timers) = 1
              /\ timers' = << >>
              /\ lastAct'.settled.status = t.status
              /\ t.status \in 400..599 => ~lastAct'.settled.ok
              /\ t.status < 400 => lastAct'.settled.ok]_vars

\* a request with a 4xx status has been rejected with that status
C16_Witness ==
  /\ lastAct.name = "Fire"
  /\ lastAct.kind = "request"
  /\ lastAct.settled = [ok |-> FALSE, status |-> 400]
  /\ timers = << >>

\* C17: a fakeRequest that fails is caught by the handler that awaited it:
\* when a request of auth_02, auth_03, auth_05 or error_message_01..04 (the
\* scenarios that ask for a status of 400 or more) has come back as an
\* HttpError, nothing was thrown out of handlePrimaryAction and the boundary
\* has not faulted.
C17_RequestFailureAlwaysCaught ==
  /\ \A i \in 1..Len(timers) :
       (timers[i].kind = "request" /\ timers[i].status >= 400) =>
         timers[i].id \in {"auth_02", "auth_03", "auth_05", "error_message_01",
                           "error_message_02", "error_message_03", "error_message_04"}
  /\ (lastAct.name = "Fire" /\ lastAct.kind = "request" /\ ~lastAct.settled.ok) =>
       ~lastAct.fault /\ ~hasError

\* the 403 of auth_05 has come back to the mounted view
C17_Witness ==
  /\ selected.id = "auth_05"
  /\ lastAct.name = "Fire"
  /\ lastAct.kind = "request"
  /\ lastAct.live
  /\ lastAct.settled = [ok |-> FALSE, status |-> 403]
  /\ ~st.loading

\* C18 as claimed: the Nth primary action of a perf_04 session waits N times
\* 1200 ms, for every N (the counter is N once the click has been handled).
C18_NthTriggerWaitsNTimesBase ==
  lastAct.name = "PrimaryAction" =>
    /\ Last(timers).kind = "sleep"
    /\ Last(timers).ms = st.count * PerfBaseMs

\* C18 amended: the Nth primary action of a perf_04 session waits
\* ((N - 1) mod 3 + 1) times 1200 ms: N times 1200 ms for N up to 3, and
\* from the fourth on the waits 1200, 2400, 3600 repeat. The handler ends,
\* with loading false and the toast naming the wait, when that wait is over.
C18_NthTriggerWaitsCycleOfThree ==
  /\ lastAct.name = "PrimaryAction" =>
       /\ st.loading
       /\ Last(timers).kind = "sleep"
       /\ Last(timers).rem = Last(timers).ms
       /\ Last(timers).ms = (((st.count - 1) % 3) + 1) * 1200
       /\ st.count <= 3 => Last(timers).ms = st.count * 1200
  /\ (lastAct.name = "Fire" /\ lastAct.kind = "sleep" /\ lastAct.live) =>
       /\ ~st.loading
       /\ st.toast.text = "Loaded after ms"
       /\ st.toast.arg \in {1200, 2400, 3600}

\* the fourth primary action of a session waits 1200 ms
C18_Witness ==
  /\ selected.id = "perf_04"
  /\ lastAct.name = "PrimaryAction"
  /\ st.count = 4
  /\ Last(timers).ms = 1200

\* C19 as claimed: in data_wrong_04, after two primary actions on a fresh
\* view the list has two items and the counter is 1 or 2.
C19_TwoTriggersCounterOneOrTwo ==
  (InView /\ selected.id = "data_wrong_04" /\ Len(st.items) = 2) => st.count \in {1, 2}

\* C19 amended: in data_wrong_04 every primary action appends one item and
\* adds 2 to the counter, whatever else happens in between, so the counter is
\* always twice the length of the list: 4 with two items after two primary
\* actions, and different from the length as soon as there is an item.
C19_CounterIsTwiceTheList ==
  (InView /\ selected.id = "data_wrong_04") =>
    /\ st.count = 2 * Len(st.items)
    /\ \A i \in 1..Len(st.items) : st.items[i] = Item(i)
    /\ Len(st.items) = 2 => st.count = 4
    /\ st.items # << >> => st.count # Len(st.items)
    /\ lastAct.name = "PrimaryAction" => st.items # << >>

\* two primary actions in a row have left two items and a counter of 4
C19_Witness ==
  /\ selected.id = "data_wrong_04"
  /\ lastAct.name = "PrimaryAction"
  /\ used = 3
  /\ Len(st.items) = 2
  /\ st.count = 4

\* C20: a boundary that has faulted stays faulted, and its scenario view is
\* not rendered again, until the user goes back to the catalog; it faults at
\* most once; the boundary of the next selection starts without a fault.
C20_FaultedIsAbsorbing ==
  /\ [](hasError => selected # NoScenario /\ st = NoSession)
  /\ [](lastAct.name = "Select" => ~hasError /\ st = Mount(selected))
  /\ [][hasError =>
          \/ hasError' /\ selected' = selected /\ st' = st
                       /\ lastAct'.name \in {"componentDidCatch", "Fire", "Advance"}
          \/ ~hasError' /\ lastAct'.name = "resetToHome" /\ selected' = NoScenario]_vars
  /\ [][lastAct'.name = "ChildRenderFault" => ~hasError /\ hasError']_vars

\* a timer of the view that faulted has fired and the boundary is still faulted
C20_Witness ==
  /\ hasError
  /\ lastAct.name = "Fire"
  /\ selected # NoScenario

C23_CatalogWellFormed ==
  /\ Len(SCENARIOS) = 40
  /\ \A i, j \in 1..Len(SCENARIOS) : SCENARIOS[i].id = SCENARIOS[j].id => i = j
  /\ Len(Categories) = 8
  /\ \A c \in 1..Len(Categories) :
       LET cat == Categories[c]
           list == SCENARIOS_BY_CATEGORY(cat)
       IN  /\ Len(list) = 5
           /\ list = SubSeq(SCENARIOS, 5 * (c - 1) + 1, 5 * c)
           /\ \A k \in 1..Len(list) :
                /\ list[k].category = cat
                /\ list[k].id = cat \o "_0" \o <<"1", "2", "3", "4", "5">>[k]
           /\ {list[k].complexity : k \in 1..Len(list)} = {"C0", "C1", "C2", "C3"}
  /\ selected # NoScenario =>
       \E c \in 1..Len(Categories), k \in 1..5 :
         selected = SCENARIOS_BY_CATEGORY(Categories[c])[k]

\* the last button of the last category of the catalog has been clicked
C23_Witness ==
  /\ lastAct.name = "Select"
  /\ selected = SCENARIOS_BY_CATEGORY("perf")[5]
  /\ selected.id = "perf_05"

\* C24: data_wrong_01 changes the counter and never the list, data_wrong_02
\* and data_wrong_03 change the list and never the counter: with k primary
\* actions in the log, the counter of data_wrong_01 is k and its list is
\* empty, and the list of data_wrong_02 and data_wrong_03 is Item 1 .. Item k
\* and their counter is 0.
C24_OneOfCounterAndList ==
  InView =>
    /\ selected.id = "data_wrong_01" =>
         /\ st.items = << >>
         /\ Len(st.log) < LogLimit => st.count = Len(st.log)
    /\ selected.id \in {"data_wrong_02", "data_wrong_03"} =>
         /\ st.count = 0
         /\ \A i \in 1..Len(st.items) : st.items[i] = Item(i)
         /\ Len(st.log) < LogLimit => Len(st.items) = Len(st.log)

\* the sixth primary action of a data_wrong_01 view
C24_Witness ==
  /\ selected.id = "data_wrong_01"
  /\ lastAct.name = "PrimaryAction"
  /\ st.count = 6
  /\ st.items = << >>

\* the sixth primary action of a data_wrong_02 view
C24_WitnessList ==
  /\ selected.id = "data_wrong_02"
  /\ lastAct.name = "PrimaryAction"
  /\ Len(st.items) = 6
  /\ st.count = 0

C26_HiddenPrerequisiteAndFakeSuccess ==
  /\ [][(selected.id = "no_response_03" /\ lastAct'.name = "PrimaryAction") =>
          IF st.checkbox
            THEN /\ lastAct'.shown
                 /\ st'.toast = Toast("success", "Submitted after prerequisite")
                 /\ st'.count = st.count + 1
                 /\ st'.items = st.items
            ELSE /\ ~lastAct'.shown
                 /\ st'.toast = st.toast
                 /\ st'.count = st.count
                 /\ st'.items = st.items]_vars
  /\ [][(selected.id = "no_response_02" /\ lastAct'.name = "PrimaryAction") =>
          /\ lastAct'.shown
          /\ st'.toast = Toast("success", "Submitted")
          /\ st'.count = st.count
          /\ st'.items = st.items]_vars

\* two primary actions with the checkbox checked have counted to 2
C26_Witness ==
  /\ selected.id = "no_response_03"
  /\ lastAct.name = "PrimaryAction"
  /\ st.checkbox
  /\ st.count = 2
  /\ st.toast = Toast("success", "Submitted after prerequisite")

\* a primary action with the checkbox unchecked has only been logged
C26_WitnessUnchecked ==
  /\ selected.id = "no_response_03"
  /\ lastAct.name = "PrimaryAction"
  /\ ~st.checkbox
  /\ st.count = 0
  /\ st.toast = NoToast
  /\ Len(st.log) = MaxTriggers + 1

\* C27: the overlay is on in no_response_04, from the first render of the
\* view to its end, and in no other scenario; under it the Primary Action
\* button cannot be clicked, so handlePrimaryAction never runs: the log stays
\* empty and the view state stays the one of the first render.
C27_OverlayAbsorbsPrimaryAction ==
  InView =>
    /\ st.overlayOn <=> selected.id = "no_response_04"
    /\ selected.id = "no_response_04" =>
         /\ ~ENABLED PrimaryAction
         /\ st.log = << >>
         /\ st = Mount(selected)
         /\ lastAct.name # "PrimaryAction"

\* a no_response_04 view: the overlay is on and the button is out of reach
C27_Witness ==
  /\ selected.id = "no_response_04"
  /\ lastAct.name = "Select"
  /\ st.overlayOn
  /\ ~ENABLED PrimaryAction
  /\ ENABLED resetToHome

\* C28: in flow_nav_04 and error_message_05 loading is true from the first
\* primary action on and is never cleared while the view lives, not even by
\* the continuation that runs when the long sleep of flow_nav_04 is over; no
\* toast is shown and the route stays where it is.
C28_LoadingNeverCleared ==
  (InView /\ selected.id \in {"flow_nav_04", "error_message_05"}) =>
    /\ st.loading <=> st.log # << >>
    /\ st.toast = NoToast
    /\ ~lastAct.shown
    /\ LiveTimers("toast") = {}
    /\ st.route = "home"
    /\ st.history = <<"home">>

\* the sleep of flow_nav_04 is over and loading is still true
C28_Witness ==
  /\ selected.id = "flow_nav_04"
  /\ lastAct.name = "Fire"
  /\ lastAct.kind = "sleep"
  /\ lastAct.live
  /\ st.loading
  /\ st.toast = NoToast

\* error_message_05 after its primary action and a pause
C28_WitnessSpinner ==
  /\ selected.id = "error_message_05"
  /\ lastAct.name = "PrimaryAction"
  /\ st.loading
  /\ used = 2

\* C29: in error_message_03 the request that fails shows the error toast
\* "Save failed" and sets one timer of 100 ms, whose callback shows the same
\* toast once more and sets nothing further: two shows per failed request.
\* The second show is not suppressed; it replaces the toast in the one slot,
\* clears the dismissal timer of the first show (which had 1400 ms left) and
\* starts a new one of 1500 ms, the only one there is.
C29_SaveFailedShownTwice ==
  /\ [][(/\ selected.id = "error_message_03"
         /\ lastAct'.name = "Fire"
         /\ lastAct'.kind = "request"
         /\ lastAct'.live)
        => /\ ~lastAct'.settled.ok
           /\ lastAct'.shown
           /\ st'.toast = Toast("error", "Save failed")
           /\ CountOf(timers', LAMBDA t : t.kind = "toast2") =
                CountOf(timers, LAMBDA t : t.kind = "toast2") + 1
           /\ \E i \in 1..Len(timers') :
                timers'[i].kind = "toast2" /\ timers'[i].rem = 100]_vars
  /\ [][(/\ selected.id = "error_message_03"
         /\ lastAct'.name = "Fire"
         /\ lastAct'.kind = "toast2"
         /\ lastAct'.live)
        => /\ lastAct'.shown
           /\ st'.toast = Toast("error", "Save failed")
           /\ CountOf(timers', LAMBDA t : t.kind = "toast2") =
                CountOf(timers, LAMBDA t : t.kind = "toast2") - 1
           /\ Cardinality({i \in 1..Len(timers') :
                             timers'[i].live /\ timers'[i].kind = "toast"}) = 1
           /\ \A i \in 1..Len(timers') :
                (timers'[i].live /\ timers'[i].kind = "toast") => timers'[i].rem = 1500]_vars

\* the second show has happened, 100 ms after the first
C29_Witness ==
  /\ selected.id = "error_message_03"
  /\ lastAct.name = "Fire"
  /\ lastAct.kind = "toast2"
  /\ lastAct.live
  /\ lastAct.shown
  /\ st.toast = Toast("error", "Save failed")
  /\ \A i \in 1..Len(timers) : timers[i].kind = "toast" /\ timers[i].rem = 1500

\* the timer of the second show is about to fire: 1400 ms of the first one are left
C29_WitnessBeforeSecondShow ==
  /\ selected.id = "error_message_03"
  /\ Len(timers) = 2
  /\ \E i, j \in 1..Len(timers) :
       /\ timers[i].kind = "toast2" /\ timers[i].rem = 0
       /\ timers[j].kind = "toast" /\ timers[j].rem = 1400

\* C30: the log never has more than 10 entries and the most recent entry
\* comes first. Every run of handlePrimaryAction, also one that throws or
\* returns at once, puts one entry in front of the others and drops the
\* oldest one when there were 10 already; nothing else changes the log of a
\* view.
C30_LogBoundedMostRecentFirst ==
  /\ [](InView =>
          /\ Len(st.log) <= 10
          /\ \A i, j \in 1..Len(st.log) : i < j => st.log[i][1] > st.log[j][1])
  /\ [][lastAct'.name = "PrimaryAction" =>
          /\ st'.log[1] = <<used, "Primary action clicked for", selected.id>>
          /\ Tail(st'.log) = IF Len(st.log) < 10 THEN st.log ELSE Front(st.log)]_vars
  /\ [][(/\ selected # NoScenario
         /\ selected' = selected
         /\ lastAct'.name # "PrimaryAction")
        => st'.log = st.log]_vars

\* a primary action that throws has pushed the oldest of 10 entries out
C30_Witness ==
  /\ selected.id = "crash_01"
  /\ lastAct.name = "PrimaryAction"
  /\ lastAct.fault
  /\ Len(st.log) = 10
  /\ st.log[1][1] = 0
  /\ st.log[10][1] = 0 - 9

----------------------------------------------------------------------------
\* C31: in a ui_issue scenario the primary action changes at most one of the
\* cosmetic flags: ui_issue_01 sets layoutBroken, ui_issue_02 toggles dark,
\* ui_issue_05 toggles longText, ui_issue_03 and ui_issue_04 change no flag;
\* counter, list, route, history, loading, toast and token (and the inputs,
\* the tab, the overlay and the pending timers) stay as they were, nothing is
\* shown and nothing is thrown.  layoutBroken is never reset while the view
\* lives.
C31_UiIssueChangesOneFlagOnly ==
  [][ /\ (selected.category = "ui_issue" /\ lastAct'.name = "PrimaryAction") =>
           /\ st'.layoutBroken = (st.layoutBroken \/ selected.id = "ui_issue_01")
           /\ st'.dark = IF selected.id = "ui_issue_02" THEN ~st.dark ELSE st.dark
           /\ st'.longText = IF selected.id = "ui_issue_05" THEN ~st.longText
                             ELSE st.longText
           /\ st'.count = st.count /\ st'.items = st.items
           /\ st'.route = st.route /\ st'.history = st.history
           /\ st'.loading = st.loading /\ st'.toast = st.toast
           /\ st'.token = st.token
           /\ st'.text = st.text /\ st'.checkbox = st.checkbox /\ st'.tab = st.tab
           /\ st'.overlayOn = st.overlayOn
           /\ timers' = timers
           /\ ~lastAct'.shown /\ ~lastAct'.fault
      /\ (selected # NoScenario /\ selected' = selected /\ st.layoutBroken) =>
           st'.layoutBroken ]_vars

\* the second primary action of a ui_issue_05 view has restored longText
C31_Witness ==
  /\ selected.id = "ui_issue_05"
  /\ lastAct.name = "PrimaryAction"
  /\ Len(st.log) = 2
  /\ st.longText = FALSE
  /\ ~st.dark /\ ~st.layoutBroken

\* the second primary action of a ui_issue_01 view leaves layoutBroken set
C31_WitnessLayout ==
  /\ selected.id = "ui_issue_01"
  /\ lastAct.name = "PrimaryAction"
  /\ Len(st.log) = 2
  /\ st.layoutBroken

----------------------------------------------------------------------------
\* the primary-action handlers of the mounted view that are suspended at an
\* await: the pending sleep and fakeRequest timers the view registered
Suspended ==
  {i \in 1..Len(timers) : timers[i].live /\ timers[i].kind \in {"sleep", "request"}}

\* C32: in data_wrong_05, auth_02, auth_03, auth_05, error_message_01..04,
\* perf_01, perf_04 and perf_05 loading is true in every state in which a
\* primary-action handler of the view is still suspended, however often the
\* action was triggered.
C32_LoadingWhileSuspended ==
  (InView /\ selected.id \in {"data_wrong_05", "auth_02", "auth_03", "auth_05",
                              "error_message_01", "error_message_02",
                              "error_message_03", "error_message_04",
                              "perf_01", "perf_04", "perf_05"}
          /\ Suspended # {}) => st.loading

----------------------------------------------------------------------------
\* C33: in auth_03 the expiry timer of a primary-action login clears only the
\* token that login set: when an expiry timer of the view fires while a token
\* is present, the token is cleared if and only if it is the token of the
\* latest primary-action login and the timer is the one of that login (no
\* younger expiry timer is left pending); a token set by the Login button is
\* never cleared by an expiry timer.
C33_ExpiryClearsOnlyItsOwnToken ==
  [][ (/\ selected.id = "auth_03"
       /\ lastAct'.name = "Fire" /\ lastAct'.kind = "expiry" /\ lastAct'.live
       /\ st.token # NoToken) =>
        (st'.token = NoToken <=>
           /\ st.token = "token_just_logged_in"
           /\ \A i \in 1..Len(timers') :
                ~(timers'[i].live /\ timers'[i].kind = "expiry")) ]_vars

----------------------------------------------------------------------------
\* C34: in auth_02 and auth_03 the handler sends the route to login only for
\* a view without a token: whenever a settled request of the view pushes
\* login, the token is absent at that moment.
C34_RedirectToLoginOnlyWithoutToken ==
  [][ (/\ selected.id \in {"auth_02", "auth_03"}
       /\ lastAct'.name = "Fire" /\ lastAct'.kind = "request" /\ lastAct'.live
       /\ st'.history # st.history /\ st'.route = "login") =>
        (st.token = NoToken /\ st'.token = NoToken) ]_vars

----------------------------------------------------------------------------
\* C35: in auth_04 the redirect from restricted to login is scheduled only
\* without a token: when the route becomes restricted in a view that already
\* holds a token, no redirect timer is started.
C35_NoRedirectWithToken ==
  [][ (/\ selected.id = "auth_04" /\ selected' = selected
       /\ st.token # NoToken
       /\ st.route # "restricted" /\ st'.route = "restricted") =>
        \A i \in 1..Len(timers') :
          ~(timers'[i].live /\ timers'[i].kind = "redirect") ]_vars

----------------------------------------------------------------------------
\* the analyze requests of the upload client that have not settled
Requests == {i \in 1..Len(inflight) : inflight[i].kind \in {"fetch", "text", "json"}}

\* C36: in the upload client status is analyzing exactly while an analyze
\* request is in flight, and at most one request is in flight at a time.
C36_AnalyzingIffOneInFlight ==
  /\ (app.status = "analyzing") <=> (Requests # {})
  /\ Cardinality(Requests) <= 1

\* C37: in the upload client a response to a request that was issued for
\* another file than the one selected now sets neither result nor errorMsg
\* nor status, so the result on the page belongs to the selected file.
C37_StaleResponseChangesNothing ==
  [][ (/\ lastAct'.name \in {"onGenerateFetched", "onGenerateText", "onGenerateJson"}
       /\ lastAct'.kind # app.file) =>
        /\ app'.result = app.result
        /\ app'.errorMsg = app.errorMsg
        /\ app'.status = app.status ]_vars

====
